---- MODULE Spec2Model ----
(***************************************************************************)
(* Model of the Fetch component (src/src/components/Fetch.tsx): a React    *)
(* function component holding a list of posts, a loading flag, the edit    *)
(* modal's visibility and the post under edit, and issuing four kinds of   *)
(* HTTP request (list, create, update, delete) whose promise callbacks     *)
(* run later, one at a time, on the single UI thread.                      *)
(*                                                                         *)
(* A request in flight is a record holding what its .then/.catch closures  *)
(* captured when the handler ran: onFinish captures the `data` of the      *)
(* render it ran in and the newPost it built; handleUpdate captures        *)
(* editingPost.id and updatedPost; handleDelete captures id.               *)
(*                                                                         *)
(* The handlers themselves contain no guard on `loading`: the flag is only *)
(* handed to the Table and the two submit buttons as a display property    *)
(* (lines 160, 190, 230), so the model lets every handler run whenever the *)
(* element that triggers it exists (a row for Edit/Delete, the open modal  *)
(* for the edit form).                                                     *)
(***************************************************************************)
EXTENDS Integers, Sequences, FiniteSets, TLC

\* ------------------------------------------------------------------ bounds
\* At most this many create, update and delete requests are ever issued (it
\* caps the ids and the number of requests in flight at once).
MaxRequests == 2

\* ------------------------------------------------------------- data model
\* userId of the posts the server returns (any value other than 1 would do;
\* it makes "userId preserved" distinguishable from "userId = 1").
ServerUserId == 7

\* interface Post { userId; id; title; body }
Post(i, u, t, b) == [id |-> i, userId |-> u, title |-> t, body |-> b]

\* A post as the server lists it.
ServerPost(i) == Post(i, ServerUserId, "old", "x")

\* The list responses the server may give to GET /posts: the empty list, a
\* single post, and two posts whose ids have a gap and are not ascending.
Responses == { <<>>, <<ServerPost(1)>>, <<ServerPost(3), ServerPost(1)>> }

\* What the user may type into the create form.
FormInputs == { [title |-> "t", body |-> "b"] }

\* What the user may type into the edit form: a new title with the old body,
\* or the old title with a new body.
EditInputs == { [title |-> "new", body |-> "x"], [title |-> "old", body |-> "y"] }

\* The value of `Post | null`: <<>> is null, <<p>> is the post p.
Null == <<>>

\* initialValues={{ title: "", body: "" }}
EmptyFields == [title |-> "", body |-> ""]

\* No request (the value of last.req for a step that completes no request).
NoReq == [kind |-> "none", snap |-> <<>>, post |-> Null, id |-> 0]

VARIABLES data, loading, isEditModalVisible, editingPost, form, editForm, mounted, inflight, prompt, nRequests, last

vars == <<data, loading, isEditModalVisible, editingPost, form, editForm, mounted, inflight, prompt, nRequests, last>>

\* ---------------------------------------------------------------- helpers
Range(s) == { s[i] : i \in 1..Len(s) }

Ids(s) == { s[i].id : i \in 1..Len(s) }

IdSeq(s) == [ i \in 1..Len(s) |-> s[i].id ]

\* Math.max(...ids) over a non-empty set of numbers.
MathMax(S) == CHOOSE m \in S : \A x \in S : x <= m

\* prevData.map(f)
RECURSIVE MapSeq(_, _, _)
MapSeq(s, k, p) == IF s = <<>> THEN <<>> ELSE <<IF Head(s).id = k THEN p ELSE Head(s)>> \o MapSeq(Tail(s), k, p)

\* prevData.filter((post) => post.id !== id)
RECURSIVE FilterSeq(_, _)
FilterSeq(s, k) == IF s = <<>> THEN <<>> ELSE (IF Head(s).id # k THEN <<Head(s)>> ELSE <<>>) \o FilterSeq(Tail(s), k)

\* The sequence s without its i-th element (a settled promise leaves the
\* set of requests in flight).
RemoveAt(s, i) == SubSeq(s, 1, i - 1) \o SubSeq(s, i + 1, Len(s))

\* The state the step started from, kept for the record of the last step.
Pre == [data |-> data, loading |-> loading, isEditModalVisible |-> isEditModalVisible, editingPost |-> editingPost]

\* The callbacks that apply a functional update setData((prevData) => ...).
Thens == {"handleUpdateThen", "handleDeleteThen"}

\* No earlier completion on record.
NoBefore == [op |-> "none", req |-> NoReq, data |-> <<>>]

\* When one of these callbacks runs directly after another of them, the
\* earlier one: its name, its request and the list it started from. Both
\* requests were then in flight together before the earlier one completed.
Before(op) == IF op \in Thens /\ last.op \in Thens THEN [op |-> last.op, req |-> last.req, data |-> last.pre.data] ELSE NoBefore

\* The record of the last step: the handler or callback that ran, the request
\* it issued or completed, the state it started from, the toasts
\* (message.success) and notifications (notification.error) it showed, and
\* the completion it directly followed.
Step(op, req, toasts, errors) == [op |-> op, req |-> req, pre |-> Pre, toasts |-> toasts, errors |-> errors, before |-> Before(op)]

\* The Popconfirm of a row exists only while the row does: a prompt open on a
\* row that the new list no longer has is gone with the row.
PromptAfter(newData) == IF prompt \in Ids(newData) THEN prompt ELSE 0

\* ------------------------------------------------------------------- Init
\* The state after the first render: the useState initial values.
Init ==
    /\ data = <<>>
    /\ loading = FALSE
    /\ isEditModalVisible = FALSE
    /\ editingPost = Null
    /\ form = EmptyFields
    /\ editForm = EmptyFields
    /\ mounted = FALSE
    /\ inflight = <<>>
    /\ prompt = 0
    /\ nRequests = 0
    /\ last = [op |-> "init", req |-> NoReq, pre |-> [data |-> <<>>, loading |-> FALSE, isEditModalVisible |-> FALSE, editingPost |-> Null], toasts |-> <<>>, errors |-> <<>>, before |-> NoBefore]

\* ---------------------------------------------------------- initial fetch
\* useEffect(() => { setLoading(true); axios.get(...) ... }, [])
FetchReq == [kind |-> "fetch", snap |-> <<>>, post |-> Null, id |-> 0]

Mount ==
    /\ ~mounted
    /\ mounted' = TRUE
    /\ loading' = TRUE
    /\ inflight' = Append(inflight, FetchReq)
    /\ last' = Step("mount", FetchReq, <<>>, <<>>)
    /\ UNCHANGED <<data, isEditModalVisible, editingPost, form, editForm, prompt, nRequests>>

\* The list request once resolved, with the response (res.data) it got.
FetchDone(res) == [kind |-> "fetch", snap |-> res, post |-> Null, id |-> 0]

\* A fetch that merges the response into the list instead of replacing it.
FetchThenDataMerge(res) == data \o res

\* setData(res.data)
FetchThenData(res) == res

\* .then((res) => { setData(res.data); setLoading(false); })
FetchThen(i, res) ==
    /\ inflight[i].kind = "fetch"
    /\ data' = FetchThenData(res)
    /\ loading' = FALSE
    /\ inflight' = RemoveAt(inflight, i)
    /\ prompt' = PromptAfter(data')
    /\ last' = Step("fetchThen", FetchDone(res), <<>>, <<>>)
    /\ UNCHANGED <<isEditModalVisible, editingPost, form, editForm, mounted, nRequests>>

\* A fetch failure handler that forgets setLoading(false).
FetchCatchKeepsLoading(i) ==
    /\ inflight[i].kind = "fetch"
    /\ inflight' = RemoveAt(inflight, i)
    /\ last' = Step("fetchCatch", inflight[i], <<>>, <<"Error Fetching Data">>)
    /\ UNCHANGED <<data, loading, isEditModalVisible, editingPost, form, editForm, mounted, prompt, nRequests>>

\* .catch(() => { notification.error({message: "Error Fetching Data"}); setLoading(false); })
FetchCatch(i) ==
    /\ inflight[i].kind = "fetch"
    /\ loading' = FALSE
    /\ inflight' = RemoveAt(inflight, i)
    /\ last' = Step("fetchCatch", inflight[i], <<>>, <<"Error Fetching Data">>)
    /\ UNCHANGED <<data, isEditModalVisible, editingPost, form, editForm, mounted, prompt, nRequests>>

\* ----------------------------------------------------------------- create
\* The user types into the create form (the Form's field store).
FormInput(values) ==
    /\ mounted
    /\ form # values
    /\ form' = values
    /\ last' = Step("formInput", NoReq, <<>>, <<>>)
    /\ UNCHANGED <<data, loading, isEditModalVisible, editingPost, editForm, mounted, inflight, prompt, nRequests>>

\* rules={[{ required: true }]} on both fields: the Form calls onFinish only
\* with both filled in.
Valid(values) == values.title # "" /\ values.body # ""

\* An id taken from the length of the list instead of its largest id.
MaxIdByLength(d) == Len(d)

\* const maxId = data.length > 0 ? Math.max(...data.map((post) => post.id)) : 0;
MaxId(d) == IF Len(d) > 0 THEN MathMax(Ids(d)) ELSE 0

\* const newPost = { ...values, id: maxId + 1, userId: 1 };
NewPost(values, d) == Post(MaxId(d) + 1, 1, values.title, values.body)

\* The request onFinish issues: axios.post(url, newPost), whose callbacks
\* close over newPost and over the `data` of the render onFinish ran in.
CreateReq(values, d) == [kind |-> "create", snap |-> d, post |-> <<NewPost(values, d)>>, id |-> NewPost(values, d).id]

\* const onFinish = (values) => { setLoading(true); ...; axios.post(...) }
onFinish ==
    /\ mounted
    /\ Valid(form)
    /\ nRequests < MaxRequests
    /\ loading' = TRUE
    /\ inflight' = Append(inflight, CreateReq(form, data))
    /\ nRequests' = nRequests + 1
    /\ last' = Step("onFinish", CreateReq(form, data), <<>>, <<>>)
    /\ UNCHANGED <<data, isEditModalVisible, editingPost, form, editForm, mounted, prompt>>

\* A create that appends to the list as it is when the promise resolves
\* (setData((prevData) => [...prevData, newPost])).
OnFinishThenDataPrev(r) == Append(data, r.post[1])

\* setData([...data, newPost]): `data` is the list onFinish captured, not
\* the list at the time the promise resolves.
OnFinishThenData(r) == Append(r.snap, r.post[1])

\* .then(() => { setData([...data, newPost]); message.success(...);
\*               form.resetFields(); setLoading(false); })
OnFinishThen(i) ==
    /\ inflight[i].kind = "create"
    /\ data' = OnFinishThenData(inflight[i])
    /\ form' = EmptyFields
    /\ loading' = FALSE
    /\ inflight' = RemoveAt(inflight, i)
    /\ prompt' = PromptAfter(data')
    /\ last' = Step("onFinishThen", inflight[i], <<"Post added successfully!">>, <<>>)
    /\ UNCHANGED <<isEditModalVisible, editingPost, editForm, mounted, nRequests>>

\* A create failure handler that puts the list back to the one onFinish
\* captured.
OnFinishCatchRollback(i) ==
    /\ inflight[i].kind = "create"
    /\ data' = inflight[i].snap
    /\ loading' = FALSE
    /\ inflight' = RemoveAt(inflight, i)
    /\ prompt' = PromptAfter(data')
    /\ last' = Step("onFinishCatch", inflight[i], <<>>, <<"Error Adding Post">>)
    /\ UNCHANGED <<isEditModalVisible, editingPost, form, editForm, mounted, nRequests>>

\* A create failure handler that shows the notification of the fetch.
OnFinishCatchWrongTitle(i) ==
    /\ inflight[i].kind = "create"
    /\ loading' = FALSE
    /\ inflight' = RemoveAt(inflight, i)
    /\ last' = Step("onFinishCatch", inflight[i], <<>>, <<"Error Fetching Data">>)
    /\ UNCHANGED <<data, isEditModalVisible, editingPost, form, editForm, mounted, prompt, nRequests>>

\* .catch(() => { notification.error({message: "Error Adding Post"}); setLoading(false); })
OnFinishCatch(i) ==
    /\ inflight[i].kind = "create"
    /\ loading' = FALSE
    /\ inflight' = RemoveAt(inflight, i)
    /\ last' = Step("onFinishCatch", inflight[i], <<>>, <<"Error Adding Post">>)
    /\ UNCHANGED <<data, isEditModalVisible, editingPost, form, editForm, mounted, prompt, nRequests>>

\* ------------------------------------------------------------------- edit
\* const handleEdit = (post) => { setEditingPost(post);
\*   editForm.setFieldsValue(post); setIsEditModalVisible(true); }
\* It is the onClick of the Edit button of a row, so post is a row of data.
handleEdit(post) ==
    /\ mounted
    /\ post \in Range(data)
    /\ editingPost' = <<post>>
    /\ editForm' = [title |-> post.title, body |-> post.body]
    /\ isEditModalVisible' = TRUE
    /\ last' = Step("handleEdit", NoReq, <<>>, <<>>)
    /\ UNCHANGED <<data, loading, form, mounted, inflight, prompt, nRequests>>

\* The user types into the edit form, which is inside the modal.
EditFormInput(values) ==
    /\ isEditModalVisible
    /\ editForm # values
    /\ editForm' = values
    /\ last' = Step("editFormInput", NoReq, <<>>, <<>>)
    /\ UNCHANGED <<data, loading, isEditModalVisible, editingPost, form, mounted, inflight, prompt, nRequests>>

\* <Modal onCancel={() => setIsEditModalVisible(false)}>
ModalOnCancel ==
    /\ isEditModalVisible
    /\ isEditModalVisible' = FALSE
    /\ last' = Step("modalOnCancel", NoReq, <<>>, <<>>)
    /\ UNCHANGED <<data, loading, editingPost, form, editForm, mounted, inflight, prompt, nRequests>>

\* const updatedPost = { ...editingPost, ...values };
UpdatedPost(p, values) == [p EXCEPT !.title = values.title, !.body = values.body]

\* The request handleUpdate issues: axios.put(`.../posts/${editingPost.id}`,
\* updatedPost), whose callbacks close over editingPost and updatedPost.
UpdateReq(p, values) == [kind |-> "update", snap |-> <<>>, post |-> <<UpdatedPost(p, values)>>, id |-> p.id]

\* const handleUpdate = (values) => { if (!editingPost) return; ...; axios.put(...) }
\* It is the onFinish of the form inside the modal.
handleUpdate ==
    /\ isEditModalVisible
    /\ Valid(editForm)
    /\ nRequests < MaxRequests
    /\ IF editingPost = Null
       THEN /\ last' = Step("handleUpdateNoop", NoReq, <<>>, <<>>)
            /\ UNCHANGED <<inflight, nRequests>>
       ELSE /\ inflight' = Append(inflight, UpdateReq(editingPost[1], editForm))
            /\ nRequests' = nRequests + 1
            /\ last' = Step("handleUpdate", UpdateReq(editingPost[1], editForm), <<>>, <<>>)
    /\ UNCHANGED <<data, loading, isEditModalVisible, editingPost, form, editForm, mounted, prompt>>

\* An update that inserts the updated post when the list has no entry with
\* its id.
HandleUpdateThenDataUpsert(r) == IF r.id \in Ids(data) THEN MapSeq(data, r.id, r.post[1]) ELSE Append(data, r.post[1])

\* An update that takes the entry out and puts the updated post at the end.
HandleUpdateThenDataMove(r) == IF r.id \in Ids(data) THEN Append(FilterSeq(data, r.id), r.post[1]) ELSE data

\* setData((prevData) => prevData.map((post) =>
\*   post.id === editingPost.id ? updatedPost : post))
HandleUpdateThenData(r) == MapSeq(data, r.id, r.post[1])

\* An update success handler that also clears loading, as the create and
\* delete handlers do.
HandleUpdateThenClearsLoading(i) ==
    /\ inflight[i].kind = "update"
    /\ data' = HandleUpdateThenData(inflight[i])
    /\ isEditModalVisible' = FALSE
    /\ editingPost' = Null
    /\ loading' = FALSE
    /\ inflight' = RemoveAt(inflight, i)
    /\ prompt' = PromptAfter(data')
    /\ last' = Step("handleUpdateThen", inflight[i], <<"Post updated successfully!">>, <<>>)
    /\ UNCHANGED <<form, editForm, mounted, nRequests>>

\* An update success handler that clears editingPost but leaves the modal
\* open.
HandleUpdateThenKeepsModal(i) ==
    /\ inflight[i].kind = "update"
    /\ data' = HandleUpdateThenData(inflight[i])
    /\ editingPost' = Null
    /\ inflight' = RemoveAt(inflight, i)
    /\ prompt' = PromptAfter(data')
    /\ last' = Step("handleUpdateThen", inflight[i], <<"Post updated successfully!">>, <<>>)
    /\ UNCHANGED <<loading, isEditModalVisible, form, editForm, mounted, nRequests>>

\* .then(() => { setData(...); message.success(...);
\*               setIsEditModalVisible(false); setEditingPost(null); })
HandleUpdateThen(i) ==
    /\ inflight[i].kind = "update"
    /\ data' = HandleUpdateThenData(inflight[i])
    /\ isEditModalVisible' = FALSE
    /\ editingPost' = Null
    /\ inflight' = RemoveAt(inflight, i)
    /\ prompt' = PromptAfter(data')
    /\ last' = Step("handleUpdateThen", inflight[i], <<"Post updated successfully!">>, <<>>)
    /\ UNCHANGED <<loading, form, editForm, mounted, nRequests>>

\* An update failure handler that closes the modal and drops editingPost.
HandleUpdateCatchClosesModal(i) ==
    /\ inflight[i].kind = "update"
    /\ isEditModalVisible' = FALSE
    /\ editingPost' = Null
    /\ inflight' = RemoveAt(inflight, i)
    /\ last' = Step("handleUpdateCatch", inflight[i], <<>>, <<"Error Updating Post">>)
    /\ UNCHANGED <<data, loading, form, editForm, mounted, prompt, nRequests>>

\* .catch(() => { notification.error({message: "Error Updating Post"}); })
HandleUpdateCatch(i) ==
    /\ inflight[i].kind = "update"
    /\ inflight' = RemoveAt(inflight, i)
    /\ last' = Step("handleUpdateCatch", inflight[i], <<>>, <<"Error Updating Post">>)
    /\ UNCHANGED <<data, loading, isEditModalVisible, editingPost, form, editForm, mounted, prompt, nRequests>>

\* ----------------------------------------------------------------- delete
\* A Delete button wired straight to the delete request
\* (onClick={() => handleDelete(record.id)}), with no confirmation.
PopconfirmOpenDeletes(k) ==
    /\ mounted
    /\ k \in Ids(data)
    /\ nRequests < MaxRequests
    /\ loading' = TRUE
    /\ inflight' = Append(inflight, [kind |-> "delete", snap |-> <<>>, post |-> Null, id |-> k])
    /\ nRequests' = nRequests + 1
    /\ last' = Step("popconfirmOpen", NoReq, <<>>, <<>>)
    /\ UNCHANGED <<data, isEditModalVisible, editingPost, form, editForm, mounted, prompt>>

\* Clicking the Delete button of the row with id k opens its Popconfirm.
PopconfirmOpen(k) ==
    /\ mounted
    /\ k \in Ids(data)
    /\ prompt # k
    /\ prompt' = k
    /\ last' = Step("popconfirmOpen", NoReq, <<>>, <<>>)
    /\ UNCHANGED <<data, loading, isEditModalVisible, editingPost, form, editForm, mounted, inflight, nRequests>>

\* cancelText="No": the prompt closes and nothing else happens.
PopconfirmCancel ==
    /\ prompt # 0
    /\ prompt' = 0
    /\ last' = Step("popconfirmCancel", NoReq, <<>>, <<>>)
    /\ UNCHANGED <<data, loading, isEditModalVisible, editingPost, form, editForm, mounted, inflight, nRequests>>

\* The request handleDelete issues: axios.delete(`.../posts/${id}`).
DeleteReq(id) == [kind |-> "delete", snap |-> <<>>, post |-> Null, id |-> id]

\* onConfirm={() => handleDelete(record.id)}
\* const handleDelete = (id) => { setLoading(true); axios.delete(...) }
handleDelete ==
    /\ prompt # 0
    /\ nRequests < MaxRequests
    /\ loading' = TRUE
    /\ inflight' = Append(inflight, DeleteReq(prompt))
    /\ nRequests' = nRequests + 1
    /\ prompt' = 0
    /\ last' = Step("handleDelete", DeleteReq(prompt), <<>>, <<>>)
    /\ UNCHANGED <<data, isEditModalVisible, editingPost, form, editForm, mounted>>

\* A delete that removes by position (the id taken as an index) instead of
\* by id.
HandleDeleteThenDataByIndex(r) == IF r.id \in 1..Len(data) THEN RemoveAt(data, r.id) ELSE data

\* setData((prevData) => prevData.filter((post) => post.id !== id))
HandleDeleteThenData(r) == FilterSeq(data, r.id)

\* .then(() => { setData(...); message.success(...); setLoading(false); })
HandleDeleteThen(i) ==
    /\ inflight[i].kind = "delete"
    /\ data' = HandleDeleteThenData(inflight[i])
    /\ loading' = FALSE
    /\ inflight' = RemoveAt(inflight, i)
    /\ prompt' = PromptAfter(data')
    /\ last' = Step("handleDeleteThen", inflight[i], <<"Post deleted successfully!">>, <<>>)
    /\ UNCHANGED <<isEditModalVisible, editingPost, form, editForm, mounted, nRequests>>

\* A delete failure handler that forgets setLoading(false).
HandleDeleteCatchKeepsLoading(i) ==
    /\ inflight[i].kind = "delete"
    /\ inflight' = RemoveAt(inflight, i)
    /\ last' = Step("handleDeleteCatch", inflight[i], <<>>, <<"Error Deleting Post">>)
    /\ UNCHANGED <<data, loading, isEditModalVisible, editingPost, form, editForm, mounted, prompt, nRequests>>

\* .catch(() => { notification.error({message: "Error Deleting Post"}); setLoading(false); })
HandleDeleteCatch(i) ==
    /\ inflight[i].kind = "delete"
    /\ loading' = FALSE
    /\ inflight' = RemoveAt(inflight, i)
    /\ last' = Step("handleDeleteCatch", inflight[i], <<>>, <<"Error Deleting Post">>)
    /\ UNCHANGED <<data, isEditModalVisible, editingPost, form, editForm, mounted, prompt, nRequests>>

\* ------------------------------------------------------------ the machine
Next ==
    \/ Mount
    \/ \E i \in 1..Len(inflight), res \in Responses : FetchThen(i, res)
    \/ \E i \in 1..Len(inflight) : FetchCatch(i)
    \/ \E values \in FormInputs : FormInput(values)
    \/ onFinish
    \/ \E i \in 1..Len(inflight) : OnFinishThen(i)
    \/ \E i \in 1..Len(inflight) : OnFinishCatch(i)
    \/ \E post \in Range(data) : handleEdit(post)
    \/ \E values \in EditInputs : EditFormInput(values)
    \/ ModalOnCancel
    \/ handleUpdate
    \/ \E i \in 1..Len(inflight) : HandleUpdateThen(i)
    \/ \E i \in 1..Len(inflight) : HandleUpdateCatch(i)
    \/ \E k \in Ids(data) : PopconfirmOpen(k)
    \/ PopconfirmCancel
    \/ handleDelete
    \/ \E i \in 1..Len(inflight) : HandleDeleteThen(i)
    \/ \E i \in 1..Len(inflight) : HandleDeleteCatch(i)

Spec == Init /\ [][Next]_vars

\* A request in flight settles: its promise resolves or rejects and the
\* matching callback runs.
Settle ==
    \/ \E i \in 1..Len(inflight), res \in Responses : FetchThen(i, res)
    \/ \E i \in 1..Len(inflight) : FetchCatch(i) \/ OnFinishThen(i) \/ OnFinishCatch(i)
    \/ \E i \in 1..Len(inflight) : HandleUpdateThen(i) \/ HandleUpdateCatch(i)
    \/ \E i \in 1..Len(inflight) : HandleDeleteThen(i) \/ HandleDeleteCatch(i)

\* The component under the assumption that every issued request eventually
\* completes (the network answers or times out, and the event loop runs the
\* callback).
FairSpec == Spec /\ WF_vars(Settle)

\* ----------------------------------------------------------- properties
\* The requests whose issue sets loading: the list request, create, delete.
Tracked == {"fetch", "create", "delete"}

TrackedInFlight == \E i \in 1..Len(inflight) : inflight[i].kind \in Tracked

\* No two entries of s have the same id.
DistinctIds(s) == \A i, j \in 1..Len(s) : i # j => s[i].id # s[j].id

\* The premise of C1: every list response has pairwise distinct ids.
ResponsesDistinct == \A res \in Responses : DistinctIds(res)

\* C1: in every reachable state, whatever the interleaving of the issue and
\* the completion of the fetch, creates, updates and deletes, and given list
\* responses with pairwise distinct ids, posts has no two entries with the
\* same id.
C1_NoDuplicateIds == ResponsesDistinct => DistinctIds(data)

\* C1's case: a create has just succeeded although the list held, right
\* before, an entry with the id of its payload (an overlapping create that
\* was given the same id had completed first).
C1_Witness == last.op = "onFinishThen" /\ last.req.id \in Ids(last.pre.data) /\ Len(data) >= 2

\* C2: when a successful create completes, posts is the list as it stood
\* right before the completion with the payload appended at the end, also
\* when other requests completed between the create's submission and its
\* completion.
C2_CreateAppendsToCurrent == last.op = "onFinishThen" => data = Append(last.pre.data, last.req.post[1])

\* C3: the payload built by onFinish has userId 1, the submitted title and
\* body, and id 1 when posts is empty, else 1 + the largest id of posts at
\* the moment of submission.
C3_SyntheticId ==
    last.op = "onFinish" =>
        LET p == last.req.post[1]
            d == last.pre.data
        IN  /\ last.req.kind = "create"
            /\ p.userId = 1
            /\ p.title = form.title
            /\ p.body = form.body
            /\ d = <<>> => p.id = 1
            /\ d # <<>> => /\ p.id - 1 \in Ids(d)
                           /\ \A k \in Ids(d) : k <= p.id - 1

\* C3's case: a create was submitted on a list of two posts whose largest
\* id is neither the last one nor the length of the list (ids 3, 1).
C3_Witness == last.op = "onFinish" /\ IdSeq(last.pre.data) = <<3, 1>> /\ last.req.id = 4

\* C4: handleUpdate builds the edited post with the submitted title and
\* body and its own id and userId; when the update succeeds, every entry of
\* posts with that id is replaced in place by this merged post, every other
\* entry is unchanged and keeps its position, and the length is the same.
C4_UpdateInPlace ==
    /\ last.op = "handleUpdate" =>
           /\ last.pre.editingPost # Null
           /\ last.req.id = last.pre.editingPost[1].id
           /\ last.req.post[1] = Post(last.pre.editingPost[1].id, last.pre.editingPost[1].userId, editForm.title, editForm.body)
    /\ last.op = "handleUpdateThen" =>
           /\ Len(data) = Len(last.pre.data)
           /\ last.req.post[1].id = last.req.id
           /\ \A i \in 1..Len(data) : data[i] = IF last.pre.data[i].id = last.req.id THEN last.req.post[1] ELSE last.pre.data[i]

\* C4's case: an update has just succeeded on a list of two or more posts
\* and changed the title or body of the first of them, whose userId is not 1.
C4_Witness ==
    /\ last.op = "handleUpdateThen"
    /\ Len(data) >= 2
    /\ last.pre.data[1].id = last.req.id
    /\ data[1] # last.pre.data[1]
    /\ data[1].userId = ServerUserId

\* C5: when a successful delete of id k completes, posts has no entry with
\* id k, and the other entries are those it had right before, unchanged and
\* in the same relative order.
C5_DeleteById ==
    last.op = "handleDeleteThen" =>
        LET k == last.req.id
            Keep(p) == p.id # k
        IN  /\ k \notin Ids(data)
            /\ data = SelectSeq(last.pre.data, Keep)

\* C5's case: a delete has just succeeded and removed the first of two or
\* more posts, whose id is not its position.
C5_Witness ==
    /\ last.op = "handleDeleteThen"
    /\ Len(last.pre.data) >= 2
    /\ last.pre.data[1].id = last.req.id
    /\ last.req.id = 3
    /\ Len(data) = Len(last.pre.data) - 1

\* C6: issuing a create, update or delete request, and the failure of one,
\* leave posts as it was before the step, by value and order.
C6_FailureLeavesPosts ==
    last.op \in {"onFinish", "handleUpdate", "handleDelete", "onFinishCatch", "handleUpdateCatch", "handleDeleteCatch"} => data = last.pre.data

\* C6's case: a create has just failed while the list is no longer the one
\* it was submitted on.
C6_Witness == last.op = "onFinishCatch" /\ data # last.req.snap /\ data # <<>>

\* C7: in every reachable state, if the fetch, a create or a delete is in
\* flight then loading is true, also when several of them overlap and one
\* completes before the others.
C7_LoadingWhileInFlight == TrackedInFlight => loading

\* C8: in every reachable state where the edit modal is not visible,
\* editingPost is none (closing the modal, by cancel or by a successful
\* update, clears editingPost).
C8_ClosedModalNoEditingPost == ~isEditModalVisible => editingPost = Null

\* C9 as stated: right after the failure of the list request is handled,
\* posts is empty and loading is false, in every interleaving.
C9_FetchFailureEmpty == last.op = "fetchCatch" => data = <<>> /\ ~loading

\* C9 amended: right after the failure of the list request is handled,
\* loading is false and posts is what it was right before, which is empty
\* or holds only posts created by this client (userId 1).
C9_FetchFailureKeepsPosts ==
    last.op = "fetchCatch" =>
        /\ ~loading
        /\ data = last.pre.data
        /\ \A i \in 1..Len(data) : data[i].userId = 1

\* C9's case: the list request has just failed while a create is still in
\* flight, which had set loading.
C9_Witness == last.op = "fetchCatch" /\ last.pre.loading /\ \E i \in 1..Len(inflight) : inflight[i].kind = "create"

\* C10: when the list request succeeds with a response, posts right after
\* is exactly that response, in its order (what posts held before is
\* replaced, not merged), and loading is false.
C10_FetchReplaces == last.op = "fetchThen" => data = last.req.snap /\ ~loading

\* C10's case: the list request has just succeeded with two posts while
\* posts already held a created post.
C10_Witness == last.op = "fetchThen" /\ last.pre.data # <<>> /\ Len(last.req.snap) = 2 /\ Len(data) = 2

\* The delete and the update of two completions that ran one directly after
\* the other, in either order.
PairDelete == IF last.op = "handleDeleteThen" THEN last.req ELSE last.before.req

PairUpdate == IF last.op = "handleUpdateThen" THEN last.req ELSE last.before.req

\* A delete of row j and an update of another row k were in flight together
\* and have just both succeeded, one directly after the other.
PairCompleted ==
    /\ last.op \in Thens
    /\ last.before.op \in Thens
    /\ last.op # last.before.op
    /\ PairDelete.id # PairUpdate.id

\* C11: if a delete of row j and an update of a different row k are in
\* flight together and both succeed, then after both completions posts is
\* the list from before the first of them with row j removed and row k
\* replaced by its merged value, the other rows unchanged, whichever of the
\* two completed first.
C11_DeleteUpdateIndependent ==
    PairCompleted =>
        LET d0 == last.before.data
            Replaced == [i \in 1..Len(d0) |-> IF d0[i].id = PairUpdate.id THEN PairUpdate.post[1] ELSE d0[i]]
            Keep(p) == p.id # PairDelete.id
        IN  data = SelectSeq(Replaced, Keep)

\* C11's case: the delete of a row completed first and the update of another
\* row right after it; both rows were on the list and the updated row
\* changed.
C11_Witness ==
    /\ PairCompleted
    /\ last.op = "handleUpdateThen"
    /\ PairDelete.id \in Ids(last.before.data)
    /\ PairUpdate.id \in Ids(last.before.data)
    /\ PairUpdate.post[1] \in Range(data)
    /\ PairUpdate.post[1] \notin Range(last.before.data)

\* The last step ran after the initial load had completed: the component is
\* mounted, the list request is no longer in flight, and the step is not the
\* completion of the list request itself.
AfterInitialLoad ==
    /\ mounted
    /\ \A i \in 1..Len(inflight) : inflight[i].kind # "fetch"
    /\ last.op \notin {"init", "mount", "fetchThen", "fetchCatch"}

\* C12: after the initial load has completed, an entry of posts is removed
\* only by the successful completion of a delete for its id and changed only
\* by the successful completion of an update for its id: every entry the
\* list held before any other step is still in the list, unchanged, after it.
C12_OnlyOwnCompletionTouchesEntry ==
    AfterInitialLoad =>
        \A i \in 1..Len(last.pre.data) :
            \/ last.pre.data[i] \in Range(data)
            \/ last.op \in Thens /\ last.req.id = last.pre.data[i].id

\* C13: in every reachable state, if no fetch, create or delete request is
\* in flight then loading is false (so it is false after a delete, create or
\* fetch fails with no other tracked request outstanding); and, every issued
\* request eventually completing, whenever loading is true it eventually
\* becomes false.
C13_LoadingClears == [](~TrackedInFlight => ~loading) /\ (loading ~> ~loading)

\* C13's case: a delete has just failed while loading was true and no other
\* tracked request is outstanding; the row is still on the list.
C13_Witness ==
    /\ last.op = "handleDeleteCatch"
    /\ last.pre.loading
    /\ ~TrackedInFlight
    /\ last.req.id \in Ids(data)
    /\ ~loading

\* C14: issuing an update and its completion, success or failure, leave
\* loading as it was: no step of the update operation sets it.
C14_UpdateLeavesLoading ==
    last.op \in {"handleUpdate", "handleUpdateNoop", "handleUpdateThen", "handleUpdateCatch"} => loading = last.pre.loading

\* C14's case: an update has just succeeded while a create or delete is
\* still in flight, and loading is still true.
C14_Witness == last.op = "handleUpdateThen" /\ TrackedInFlight /\ loading

\* C15: when an update fails, its completion leaves isEditModalVisible,
\* editingPost and posts (and loading) as they were right before, an open
\* modal staying open on the same post, and shows exactly one notification,
\* 'Error Updating Post', and no toast.
C15_UpdateFailureKeepsModal ==
    last.op = "handleUpdateCatch" =>
        /\ isEditModalVisible = last.pre.isEditModalVisible
        /\ editingPost = last.pre.editingPost
        /\ data = last.pre.data
        /\ loading = last.pre.loading
        /\ last.errors = <<"Error Updating Post">>
        /\ last.toasts = <<>>

\* C15's case: an update has just failed with the modal still open on the
\* post it was submitted for.
C15_Witness ==
    /\ last.op = "handleUpdateCatch"
    /\ isEditModalVisible
    /\ editingPost # Null
    /\ editingPost[1].id = last.req.id

\* The notification title of each kind of failed request.
ErrorTitle(op) ==
    CASE op = "fetchCatch" -> "Error Fetching Data"
      [] op = "onFinishCatch" -> "Error Adding Post"
      [] op = "handleUpdateCatch" -> "Error Updating Post"
      [] op = "handleDeleteCatch" -> "Error Deleting Post"

\* C16: every failed request shows exactly one error notification, with the
\* title of its kind, and no success toast; every successful create, update
\* or delete shows exactly one success toast and no error notification.
C16_OneMessagePerCompletion ==
    /\ last.op \in {"fetchCatch", "onFinishCatch", "handleUpdateCatch", "handleDeleteCatch"} =>
           last.errors = <<ErrorTitle(last.op)>> /\ last.toasts = <<>>
    /\ last.op \in {"onFinishThen", "handleUpdateThen", "handleDeleteThen"} =>
           Len(last.toasts) = 1 /\ last.errors = <<>>

\* C16's case: a create has just failed.
C16_Witness == last.op = "onFinishCatch" /\ last.req.kind = "create" /\ Len(last.errors) = 1

\* A step that puts a new delete request in flight.
DeleteIssued == Len(inflight') = Len(inflight) + 1 /\ inflight'[Len(inflight')].kind = "delete"

\* C17: a delete request for id k is issued only by confirming the prompt
\* open on the row with id k; opening the prompt (clicking Delete) and
\* declining it issue no request and change neither posts nor loading.
C17_DeleteOnlyAfterConfirm ==
    [][ /\ DeleteIssued =>
               /\ last'.op = "handleDelete"
               /\ prompt \in Ids(data)
               /\ inflight'[Len(inflight')].id = prompt
        /\ last'.op \in {"popconfirmOpen", "popconfirmCancel"} => UNCHANGED <<inflight, data, loading>> ]_vars

\* C17's case: the prompt of a row has just been confirmed and the delete
\* request for that row is in flight.
C17_Witness ==
    /\ last.op = "handleDelete"
    /\ last.req.id \in Ids(data)
    /\ inflight # <<>>
    /\ inflight[Len(inflight)] = last.req
    /\ prompt = 0

\* C18: in every reachable state, if the edit modal is visible then
\* editingPost is set, so handleUpdate never takes its no-op branch, also
\* when an earlier update succeeds after the modal was opened on another
\* post.
C18_VisibleModalHasEditingPost == (isEditModalVisible => editingPost # Null) /\ last.op # "handleUpdateNoop"

\* C18's case: an update has just succeeded while the modal was open on
\* another post than the one it updated.
C18_Witness ==
    /\ last.op = "handleUpdateThen"
    /\ last.pre.isEditModalVisible
    /\ last.pre.editingPost # Null
    /\ last.pre.editingPost[1].id # last.req.id

\* C19: the successful completion of an update never changes the sequence
\* of ids of posts; if the post under update is no longer on the list (it
\* was deleted while the update was in flight), posts is left unchanged.
C19_UpdateKeepsIds ==
    last.op = "handleUpdateThen" =>
        /\ IdSeq(data) = IdSeq(last.pre.data)
        /\ last.req.id \notin Ids(last.pre.data) => data = last.pre.data

\* C19's case: an update has just succeeded for a post that a delete had
\* removed while the update was in flight, the list still holding a post.
C19_Witness ==
    /\ last.op = "handleUpdateThen"
    /\ last.before.op = "handleDeleteThen"
    /\ last.before.req.id = last.req.id
    /\ last.req.id \in Ids(last.before.data)
    /\ data # <<>>

====
